---- MODULE Spec2Model ----
(***************************************************************************)
(* atmospy: a thin client of the WeatherAPI HTTP service.                  *)
(*                                                                         *)
(*   functions.py  validate_format, validate_datetime, get_object_to       *)
(*   models.py     the dataclasses get_object_to builds                    *)
(*   client.py     WeatherClient (__init__, _make_request,                 *)
(*                 get_current_weather, get_forecast) and the statements   *)
(*                 the module runs when it is imported                     *)
(*   exceptions.py MissingAPIKeyError, MissingParamsError, APIRequestError *)
(*                                                                         *)
(* Python values are modelled as follows.  A value that may be None is a   *)
(* sequence of length at most one: None is <<>>, a value v is <<v>>.  A    *)
(* str the code looks into (a date, an endpoint, a URL) is a sequence of   *)
(* one-character strings; a str the code only passes on is a TLA+ string.  *)
(* A dict is a function whose domain is its set of keys.  The outcome of   *)
(* a call is a record: Return(v) or Raise(exception, message, status).     *)
(***************************************************************************)
EXTENDS Integers, Sequences, FiniteSets, TLC

VARIABLES
    vcall,      \* the last call of a function of the Validator, with its outcome
    mcall,      \* the last call of get_object_to, with its outcome
    module,     \* atmospy.client: "unloaded", "loaded" or "failed" (import raised)
    w,          \* the module-level client of client.py, None before the import
    client,     \* the caller's WeatherClient, None while there is none
    ctorKey,    \* the api_key the caller gave when it constructed client
    wire,       \* every GET handed to requests.get so far, in order
    last,       \* the last call made on a client, with its outcome
    calls       \* how many calls the caller has made

vars == <<vcall, mcall, module, w, client, ctorKey, wire, last, calls>>

----------------------------------------------------------------------------
(* Python values and outcomes *)

None == <<>>

Some(v) == <<v>>

IsNone(v) == v = <<>>

Return(v) == [tag |-> "return", exc |-> "", msg |-> "", status_code |-> 0, value |-> <<v>>]

Raise(e, m, s) == [tag |-> "raise", exc |-> e, msg |-> m, status_code |-> s, value |-> <<>>]

Returned(r) == r.tag = "return"

Raised(r, e) == r.tag = "raise" /\ r.exc = e

----------------------------------------------------------------------------
(* The calendar of datetime.date: proleptic Gregorian, years 1..9999 *)

MINYEAR == 1

MAXYEAR == 9999

IsLeap(y) == (y % 4 = 0) /\ ((y % 100 # 0) \/ (y % 400 = 0))

DaysInMonth(y, m) ==
    IF m = 2 THEN (IF IsLeap(y) THEN 29 ELSE 28)
    ELSE IF m \in {4, 6, 9, 11} THEN 30 ELSE 31

Date(y, m, d) == [year |-> y, month |-> m, day |-> d]

\* date.__le__: dates compare as (year, month, day)
DateLe(a, b) ==
    \/ a.year < b.year
    \/ a.year = b.year /\ a.month < b.month
    \/ a.year = b.year /\ a.month = b.month /\ a.day <= b.day

NextDay(t) ==
    IF t.day < DaysInMonth(t.year, t.month) THEN Date(t.year, t.month, t.day + 1)
    ELSE IF t.month < 12 THEN Date(t.year, t.month + 1, 1)
    ELSE Date(t.year + 1, 1, 1)

\* date + timedelta(days=n), n >= 0
RECURSIVE AddDays(_, _)
AddDays(t, n) == IF n = 0 THEN t ELSE AddDays(NextDay(t), n - 1)

----------------------------------------------------------------------------
(* datetime.strptime(dt, "%Y-%m-%d") *)

DigitChars == <<"0", "1", "2", "3", "4", "5", "6", "7", "8", "9">>

IsDigit(c) == \E i \in 1..10 : DigitChars[i] = c

IsNonZeroDigit(c) == \E i \in 2..10 : DigitChars[i] = c

DigitVal(c) == (CHOOSE i \in 1..10 : DigitChars[i] = c) - 1

\* int() of a run of digits, leading blanks skipped as int() does
RECURSIVE IntOf(_)
IntOf(s) ==
    IF s = <<>> THEN 0
    ELSE IF s[Len(s)] = " " THEN 0
    ELSE 10 * IntOf(SubSeq(s, 1, Len(s) - 1)) + DigitVal(s[Len(s)])

At(s, p) == IF p \in 1..Len(s) THEN s[p] ELSE ""

\* %Y is (?P<Y>\d\d\d\d): exactly four digits, from position 1
YearMatches(s) == \A p \in 1..4 : IsDigit(At(s, p))

\* %m is (?P<m>1[0-2]|0[1-9]|[1-9]) at position p: the lengths the alternatives
\* match, in the order the regular expression tries them
MonthLens(s, p) ==
    (IF \/ At(s, p) = "1" /\ At(s, p + 1) \in {"0", "1", "2"}
        \/ At(s, p) = "0" /\ IsNonZeroDigit(At(s, p + 1))
     THEN <<2>> ELSE <<>>)
    \o (IF IsNonZeroDigit(At(s, p)) THEN <<1>> ELSE <<>>)

\* %d is (?P<d>3[0-1]|[1-2]\d|0[1-9]|[1-9]| [1-9]) at position p: the length of
\* the first alternative that matches, 0 when none does
DayLen(s, p) ==
    IF \/ At(s, p) = "3" /\ At(s, p + 1) \in {"0", "1"}
       \/ At(s, p) \in {"1", "2"} /\ IsDigit(At(s, p + 1))
       \/ At(s, p) = "0" /\ IsNonZeroDigit(At(s, p + 1))
    THEN 2
    ELSE IF IsNonZeroDigit(At(s, p)) THEN 1
    ELSE IF At(s, p) = " " /\ IsNonZeroDigit(At(s, p + 1)) THEN 2
    ELSE 0

\* the month lengths after which "-" and a day follow
MonthFits(s) ==
    SelectSeq(MonthLens(s, 6), LAMBDA n : At(s, 6 + n) = "-" /\ DayLen(s, 7 + n) > 0)

\* the regular expression of the format matches a prefix of s
FormatMatches(s) == YearMatches(s) /\ At(s, 5) = "-" /\ MonthFits(s) # <<>>

\* the fields of a match: year, month, day and the position the match ends at
Fields(s) ==
    LET ml == MonthFits(s)[1]
        dl == DayLen(s, 7 + ml)
    IN  [year  |-> IntOf(SubSeq(s, 1, 4)),
         month |-> IntOf(SubSeq(s, 6, 5 + ml)),
         day   |-> IntOf(SubSeq(s, 7 + ml, 6 + ml + dl)),
         end   |-> 6 + ml + dl]

\* strptime: ValueError unless the format matches, no text remains after the
\* match, and the fields are a date of the calendar
strptime(s) ==
    IF ~FormatMatches(s)
    THEN Raise("ValueError", "does not match format", 0)
    ELSE LET f == Fields(s) IN
         IF f.end # Len(s)
         THEN Raise("ValueError", "unconverted data remains", 0)
         ELSE IF f.year < MINYEAR \/ f.year > MAXYEAR
         THEN Raise("ValueError", "year is out of range", 0)
         ELSE IF f.day > DaysInMonth(f.year, f.month)
         THEN Raise("ValueError", "day is out of range for month", 0)
         ELSE Return(Date(f.year, f.month, f.day))

----------------------------------------------------------------------------
(* functions.py: the Validator *)

FormatMessage == "The date must be in the format YYYY-MM-DD."

RangeMessage == "The date must be between today and the next 14 days."

WindowDays == 14

\* validate_format(dt): whether strptime raises ValueError
validate_format(dt) == Returned(strptime(dt))

\* validate_datetime with the last day of the window left out
validate_datetime_exclusive(dt, today) ==
    IF ~validate_format(dt)
    THEN Raise("ValueError", FormatMessage, 0)
    ELSE LET final_date == AddDays(today, WindowDays)
             input_date == strptime(dt).value[1]
         IN  IF ~(DateLe(today, input_date) /\ DateLe(input_date, final_date)
                  /\ input_date # final_date)
             THEN Raise("ValueError", RangeMessage, 0)
             ELSE Return(None)

\* validate_datetime(dt), called while datetime.now().date() is today
validate_datetime(dt, today) ==
    IF ~validate_format(dt)
    THEN Raise("ValueError", FormatMessage, 0)
    ELSE LET final_date == AddDays(today, WindowDays)
             input_date == strptime(dt).value[1]
         IN  IF ~(DateLe(today, input_date) /\ DateLe(input_date, final_date))
             THEN Raise("ValueError", RangeMessage, 0)
             ELSE Return(None)

----------------------------------------------------------------------------
(* models.py: the dataclasses.  A dataclass is its set of fields and the   *)
(* subset of them that has no default.                                     *)

LocationFields ==
    {"name", "region", "country", "lat", "lon", "tz_id", "localtime_epoch", "localtime"}

CurrentFields ==
    {"last_updated_epoch", "last_updated", "temp_c", "temp_f", "is_day", "condition"}

ForecastDayFields == {"date", "date_epoch", "day", "astro", "hour"}

ForecastFields == {"forecastday"}

\* the __init__ a dataclass generates, called with the keyword arguments kw: a
\* keyword that is no field, or a field without default that is not given, is
\* a TypeError; a field with a default that is not given is None
NewDataclass(fields, required, kw) ==
    IF ~(DOMAIN kw \subseteq fields)
    THEN Raise("TypeError", "got an unexpected keyword argument", 0)
    ELSE IF ~(required \subseteq DOMAIN kw)
    THEN Raise("TypeError", "missing required positional argument", 0)
    ELSE Return([f \in fields |-> IF f \in DOMAIN kw THEN kw[f] ELSE None])

\* Cls(**v): v must be a mapping
Unpack(fields, required, v) ==
    IF IsNone(v)
    THEN Raise("TypeError", "argument after ** must be a mapping", 0)
    ELSE NewDataclass(fields, required, v[1])

WeatherData(location, current, forecast) ==
    [location |-> location, current |-> current, forecast |-> forecast]

----------------------------------------------------------------------------
(* functions.py: the Response Mapper *)

KeysMessage == "Response must contain 'location' and 'current' keys."

\* get_object_to with "and" for "or" in its check of the keys
get_object_to_and(response) ==
    LET get(k) == IF k \in DOMAIN response THEN response[k] ELSE None IN
    IF "location" \notin DOMAIN response /\ "current" \notin DOMAIN response
    THEN Raise("KeyError", KeysMessage, 0)
    ELSE LET location == Unpack(LocationFields, {}, get("location"))
             current  == Unpack(CurrentFields, {}, get("current"))
             forecast == IF "forecast" \in DOMAIN response
                         THEN Unpack(ForecastFields, ForecastFields, response["forecast"])
                         ELSE Return(None)
         IN  IF ~Returned(location) THEN location
             ELSE IF ~Returned(current) THEN current
             ELSE IF ~Returned(forecast) THEN forecast
             ELSE Return(WeatherData(location.value, current.value,
                                     IF "forecast" \in DOMAIN response
                                     THEN forecast.value ELSE None))

\* get_object_to(response)
get_object_to(response) ==
    IF "location" \notin DOMAIN response \/ "current" \notin DOMAIN response
    THEN Raise("KeyError", KeysMessage, 0)
    ELSE LET location == Unpack(LocationFields, {}, response["location"])
             current  == Unpack(CurrentFields, {}, response["current"])
             forecast == IF "forecast" \in DOMAIN response
                         THEN Unpack(ForecastFields, ForecastFields, response["forecast"])
                         ELSE Return(None)
         IN  IF ~Returned(location) THEN location
             ELSE IF ~Returned(current) THEN current
             ELSE IF ~Returned(forecast) THEN forecast
             ELSE Return(WeatherData(location.value, current.value,
                                     IF "forecast" \in DOMAIN response
                                     THEN forecast.value ELSE None))

----------------------------------------------------------------------------
(* client.py: WeatherClient *)

BaseUrl ==
    <<"h", "t", "t", "p", ":", "/", "/", "a", "p", "i", ".", "w", "e", "a", "t", "h",
      "e", "r", "a", "p", "i", ".", "c", "o", "m", "/", "v", "1">>

CurrentEndpoint == <<"/", "c", "u", "r", "r", "e", "n", "t", ".", "j", "s", "o", "n">>

ForecastEndpoint == <<"/", "f", "o", "r", "e", "c", "a", "s", "t", ".", "j", "s", "o", "n">>

Timeout == 10

MinDays == 1

MaxDays == 14

TransportFailureStatus == 500

DaysMessage == "Days must be between 1 and 14."

\* "not v" for an optional str that is a TLA+ string
FalsyStr(v) == IsNone(v) \/ v[1] = ""

\* "not v" for an optional str that is a sequence of characters
FalsyText(v) == IsNone(v) \/ v[1] = <<>>

\* "not v" for an optional int
FalsyInt(v) == IsNone(v) \/ v[1] = 0

\* "not v" for an optional dict
FalsyDict(v) == IsNone(v) \/ DOMAIN v[1] = {}

\* __init__ without its check of api_key
WeatherClient_unchecked(api_key) ==
    Return([api_key |-> api_key, base_url |-> BaseUrl])

\* WeatherClient(api_key): __init__
WeatherClient(api_key) ==
    IF FalsyStr(api_key)
    THEN Raise("MissingAPIKeyError", "API key is missing.", 0)
    ELSE Return([api_key |-> api_key, base_url |-> BaseUrl])

\* response.raise_for_status() raises HTTPError: the status is 4xx or 5xx
IsErrorStatus(status) == 400 <= status /\ status < 600

\* the query string requests.get puts on the wire for params: a key whose
\* value is None is left out
WireQuery(params) == [k \in {x \in DOMAIN params : ~IsNone(params[x])} |-> params[k]]

\* the try block with every status outside 2xx raised, and raised as a
\* transport failure
HandleOutcome_any_status(outcome) ==
    IF outcome.kind = "raise"
    THEN Raise("APIRequestError", "Request failed", TransportFailureStatus)
    ELSE IF ~(200 <= outcome.status /\ outcome.status < 300) \/ IsErrorStatus(outcome.status)
    THEN Raise("APIRequestError", "HTTPError", TransportFailureStatus)
    ELSE IF IsNone(outcome.json)
    THEN (IF outcome.jsonError = "RequestException"
          THEN Raise("APIRequestError", "Request failed", TransportFailureStatus)
          ELSE Raise("ValueError", "JSONDecodeError", 0))
    ELSE get_object_to(outcome.json[1])

\* what the try block of _make_request comes to, given what the transport did
\* (outcome) with the GET
HandleOutcome(outcome) ==
    IF outcome.kind = "raise"
    THEN Raise("APIRequestError", "Request failed", TransportFailureStatus)
    ELSE IF IsErrorStatus(outcome.status)
    THEN Raise("APIRequestError", "HTTPError", outcome.status)
    ELSE IF IsNone(outcome.json)
    THEN (IF outcome.jsonError = "RequestException"
          THEN Raise("APIRequestError", "Request failed", TransportFailureStatus)
          ELSE Raise("ValueError", "JSONDecodeError", 0))
    ELSE get_object_to(outcome.json[1])

\* a call's outcome together with the GETs it handed to requests.get and the
\* calls of _make_request it made
Done(result, made, gets) == [result |-> result, made |-> made, gets |-> gets]

\* _make_request without the API key among the parameters
_make_request_no_key(self, endpoint, params, outcome) ==
    IF At(endpoint, 1) # "/"
    THEN Done(Raise("ValueError", "Endpoint must start with /", 0), <<>>, <<>>)
    ELSE IF FalsyDict(params)
    THEN Done(Raise("MissingParamsError", "Missing parameters for the request.", 0),
              <<>>, <<>>)
    ELSE Done(HandleOutcome(outcome), <<>>,
              <<[url |-> self.base_url \o endpoint, params |-> params[1],
                 timeout |-> Timeout]>>)

\* self._make_request(endpoint, params), the transport answering with outcome
_make_request(self, endpoint, params, outcome) ==
    IF At(endpoint, 1) # "/"
    THEN Done(Raise("ValueError", "Endpoint must start with /", 0), <<>>, <<>>)
    ELSE IF FalsyDict(params)
    THEN Done(Raise("MissingParamsError", "Missing parameters for the request.", 0),
              <<>>, <<>>)
    ELSE LET url == self.base_url \o endpoint
             all_params == [k \in DOMAIN params[1] \cup {"key"} |->
                               IF k = "key" THEN self.api_key ELSE params[1][k]]
         IN  Done(HandleOutcome(outcome), <<>>,
                  <<[url |-> url, params |-> all_params, timeout |-> Timeout]>>)

\* self.get_current_weather(city_name, language)
get_current_weather(self, city_name, language, outcome) ==
    IF FalsyStr(city_name)
    THEN Done(Raise("MissingParamsError", "Missing parameters for the request.", 0),
              <<>>, <<>>)
    ELSE LET params == [q |-> city_name, lang |-> language]
             r == _make_request(self, CurrentEndpoint, Some(params), outcome)
         IN  Done(r.result, <<[endpoint |-> CurrentEndpoint, params |-> params]>>, r.gets)

\* self.get_forecast(city_name, days, dt), called while the clock reads today
get_forecast(self, city_name, days, dt, today, outcome) ==
    IF FalsyStr(city_name) \/ FalsyInt(days)
    THEN Done(Raise("MissingParamsError", "Missing parameters for the request.", 0),
              <<>>, <<>>)
    ELSE IF days[1] < MinDays \/ days[1] > MaxDays
    THEN Done(Raise("ValueError", DaysMessage, 0), <<>>, <<>>)
    ELSE IF ~FalsyText(dt) /\ ~Returned(validate_datetime(dt[1], today))
    THEN Done(validate_datetime(dt[1], today), <<>>, <<>>)
    ELSE LET params == [q |-> city_name, days |-> days, dt |-> dt]
             r == _make_request(self, ForecastEndpoint, Some(params), outcome)
         IN  Done(r.result, <<[endpoint |-> ForecastEndpoint, params |-> params]>>, r.gets)

\* print(result.forecast.forecastday[0]) does not raise: result has a forecast
\* whose forecastday is a sequence that is not empty
CanPrintFirstDay(result) ==
    /\ ~IsNone(result.forecast)
    /\ ~IsNone(result.forecast[1].forecastday)
    /\ result.forecast[1].forecastday[1] # <<>>

ModuleKey == "cd1e3425856b476d834155516251409"

ModuleDate == <<"2", "0", "2", "5", "-", "1", "0", "-", "1", "0">>

----------------------------------------------------------------------------
(* The date strings and clock readings the Validator is called with *)

Pad2(n) == <<DigitChars[(n \div 10) + 1], DigitChars[(n % 10) + 1]>>

Pad4(n) == Pad2(n \div 100) \o Pad2(n % 100)

Bare(n) == IF n < 10 THEN <<DigitChars[n + 1]>> ELSE Pad2(n)

SampleYears == {2024, 2025, 2026}

SampleMonths == {0, 1, 2, 3, 10, 12, 13}

SampleDays == {0, 1, 4, 5, 6, 7, 8, 9, 19, 20, 21, 24, 25, 28, 29, 30, 31, 32}

YearTexts ==
    {Pad4(y) : y \in SampleYears}
        \cup {Pad4(0), Pad2(25), Pad4(2025) \o <<"5">>, <<"y", "y", "y", "y">>}

MonthTexts ==
    {Pad2(m) : m \in SampleMonths} \cup {Bare(m) : m \in SampleMonths}
        \cup {<<" ", "1">>, <<"m", "m">>}

DayTexts ==
    {Pad2(d) : d \in SampleDays} \cup {Bare(d) : d \in SampleDays}
        \cup {<<" ", "5">>, <<"d", "d">>, Pad2(5) \o <<"x">>, Pad2(31) \o <<"0">>}

Separators == {"-", "/"}

DateTexts ==
    {y \o <<a>> \o m \o <<b>> \o d :
        y \in YearTexts, a \in Separators, m \in MonthTexts,
        b \in Separators, d \in DayTexts}
    \cup {d \o <<"-">> \o m \o <<"-">> \o y :
        y \in {Pad4(2025)}, m \in {Pad2(10), Pad2(5)}, d \in {Pad2(20), Pad2(10)}}
    \cup {<<>>, <<"n", "o", "t", " ", "a", " ", "d", "a", "t", "e">>,
          <<" ">> \o Pad4(2025) \o <<"-">> \o Pad2(10) \o <<"-">> \o Pad2(5),
          Pad4(2025) \o Pad2(10) \o Pad2(5)}

\* what datetime.now().date() may return when the Validator is called
Todays == {Date(2025, 10, 5), Date(2024, 2, 20), Date(2025, 2, 20), Date(2025, 12, 25)}

\* the dicts with keys among K and values among V
Dicts(K, V) == UNION {[S -> V] : S \in SUBSET K}

\* the sequences over S of length at most n
SeqsUpTo(S, n) == UNION {[1..k -> S] : k \in 0..n}

MaxForecastDays == 2

\* a "location" sub-mapping: two fields of Location and a key that is none
LocationDicts == Dicts({"name", "country", "population"}, {Some("Paris"), None})

\* a "current" sub-mapping: two fields of Current and a key that is none
CurrentDicts == Dicts({"temp_c", "is_day", "wind_kph"}, {Some(18), None})

DayEntry(date, epoch) ==
    [date |-> Some(date), date_epoch |-> Some(epoch),
     day |-> Some([maxtemp_c |-> Some(20)]), astro |-> Some([sunrise |-> Some("06:10 AM")]),
     hour |-> Some(<<>>)]

Without(d, k) == [x \in DOMAIN d \ {k} |-> d[x]]

\* the entries of "forecastday": complete ones, one without "hour", one
\* without "date", an empty one
DayEntries ==
    {DayEntry("2025-10-10", 1760054400), DayEntry("2025-10-11", 1760140800),
     Without(DayEntry("2025-10-10", 1760054400), "hour"),
     Without(DayEntry("2025-10-11", 1760140800), "date"),
     [x \in {} |-> None]}

ForecastDicts ==
    {[x \in {} |-> None]}
    \cup {[forecastday |-> Some(days)] : days \in SeqsUpTo(DayEntries, MaxForecastDays)}
    \cup {[forecastday |-> Some(<<DayEntry("2025-10-10", 1760054400)>>),
           alerts |-> Some(<<>>)]}

\* a value of a key holding a sub-mapping: the sub-mapping, or JSON null
OrNull(S) == {Some(d) : d \in S} \cup {None}

\* the JSON bodies get_object_to is called with
Payloads ==
    {[location |-> l, current |-> c, forecast |-> f] :
        l \in OrNull(LocationDicts), c \in OrNull(CurrentDicts), f \in OrNull(ForecastDicts)}
    \cup {[location |-> l, current |-> c] :
        l \in OrNull(LocationDicts), c \in OrNull(CurrentDicts)}
    \cup {[location |-> l, forecast |-> f] :
        l \in OrNull(LocationDicts), f \in OrNull(ForecastDicts)}
    \cup {[current |-> c, forecast |-> f] :
        c \in OrNull(CurrentDicts), f \in OrNull(ForecastDicts)}
    \cup {[location |-> l] : l \in OrNull(LocationDicts)}
    \cup {[current |-> c] : c \in OrNull(CurrentDicts)}
    \cup {[forecast |-> f] : f \in OrNull(ForecastDicts)}
    \cup {[x \in {} |-> None]}

NoCall == [op |-> "none"]

\* a caller calls validate_format(dt)
CallValidateFormat ==
    /\ vcall.op = "pending"
    /\ vcall' = [vcall EXCEPT !.op = "validate_format",
                              !.result = Some(validate_format(vcall.dt))]
    /\ UNCHANGED <<mcall, module, w, client, ctorKey, wire, last, calls>>

\* a caller calls validate_datetime(dt) while the clock reads today
CallValidateDatetime ==
    /\ vcall.op = "pending"
    /\ vcall' = [vcall EXCEPT !.op = "validate_datetime",
                              !.result = Some(validate_datetime(vcall.dt, vcall.today))]
    /\ UNCHANGED <<mcall, module, w, client, ctorKey, wire, last, calls>>

\* a caller calls get_object_to(response)
CallGetObjectTo ==
    /\ mcall.op = "pending"
    /\ mcall' = [mcall EXCEPT !.op = "get_object_to",
                              !.result = Some(get_object_to(mcall.response))]
    /\ UNCHANGED <<vcall, module, w, client, ctorKey, wire, last, calls>>

\* atmospy.client is not imported yet, and nothing has been called
IdleClient ==
    /\ module = "unloaded"
    /\ w = None
    /\ client = None
    /\ ctorKey = None
    /\ wire = <<>>
    /\ last = [op |-> "none", args |-> None, today |-> None, transport |-> None,
               result |-> Return(None), made |-> <<>>, gets |-> <<>>]
    /\ calls = 0

InitValidator ==
    /\ vcall \in [op : {"pending"}, dt : DateTexts, today : Todays, result : {None}]
    /\ mcall = NoCall
    /\ IdleClient

NextValidator == CallValidateFormat \/ CallValidateDatetime

SpecValidator == InitValidator /\ [][NextValidator]_vars

InitMapper ==
    /\ vcall = NoCall
    /\ mcall \in [op : {"pending"}, response : Payloads, result : {None}]
    /\ IdleClient

NextMapper == CallGetObjectTo

SpecMapper == InitMapper /\ [][NextMapper]_vars

----------------------------------------------------------------------------
(* The client: what the transport may answer, what callers pass, and the   *)
(* steps of a program that imports atmospy.client and uses a WeatherClient *)

MaxCalls == 2

TokyoBody ==
    [location |-> Some([name |-> Some("Tokyo")]), current |-> Some([temp_c |-> Some(18)])]

ForecastBody ==
    [location |-> Some([name |-> Some("Tokyo")]), current |-> Some([temp_c |-> Some(18)]),
     forecast |-> Some([forecastday |-> Some(<<DayEntry("2025-10-10", 1760054400)>>)])]

NoDaysBody ==
    [location |-> Some([name |-> Some("Tokyo")]), current |-> Some([temp_c |-> Some(18)]),
     forecast |-> Some([forecastday |-> Some(<<>>)])]

NoLocationBody == [current |-> Some([temp_c |-> Some(18)])]

Bodies == {TokyoBody, ForecastBody, NoDaysBody, NoLocationBody}

\* requests.get raised exc, a RequestException that is no HTTPError
Failure(exc) ==
    [kind |-> "raise", exc |-> exc, status |-> 0, json |-> None, jsonError |-> ""]

\* requests.get returned a response with this status whose body decodes to json
Response(status, json) ==
    [kind |-> "response", exc |-> "", status |-> status, json |-> Some(json), jsonError |-> ""]

\* requests.get returned a response whose body is no JSON: response.json() raises
\* a RequestException (requests 2.27 and later) or a plain ValueError (before)
Undecodable(status, jsonError) ==
    [kind |-> "response", exc |-> "", status |-> status, json |-> None,
     jsonError |-> jsonError]

Outcomes ==
    {Failure(e) : e \in {"ConnectionError", "Timeout"}}
    \cup {Response(200, b) : b \in Bodies}
    \cup {Undecodable(200, e) : e \in {"RequestException", "ValueError"}}
    \cup {Response(304, ForecastBody), Undecodable(304, "RequestException"),
          Response(401, NoLocationBody), Undecodable(404, "RequestException"),
          Undecodable(503, "ValueError")}

\* the transport is asked only by a call that gets as far as its GET: the
\* answers to draw for a call that, left unanswered, comes to done
Unasked == Failure("")

Answers(done) == IF done.gets = <<>> THEN {Unasked} ELSE Outcomes

Keys == {None, Some(""), Some("fake_key")}

Cities == {None, Some(""), Some("Tokyo")}

Languages == {None, Some("es")}

DaysArgs == {None, Some(0), Some(-1), Some(1), Some(5), Some(14), Some(15)}

DateArgs ==
    {None, Some(<<>>), Some(ModuleDate),
     Some(Pad4(2025) \o <<"/">> \o Pad2(10) \o <<"/">> \o Pad2(10)),
     Some(Pad4(2025) \o <<"-">> \o Pad2(11) \o <<"-">> \o Pad2(10))}

\* the clock when the module is imported or a method is called
ClientTodays == {Date(2025, 10, 5), Date(2025, 10, 11)}

Endpoints == {CurrentEndpoint, Tail(CurrentEndpoint)}

ParamsArgs == {None, Some([x \in {} |-> None]), Some([q |-> Some("Test City")])}

\* the record of a call: the transport's answer is kept when a GET was issued
Record(op, args, today, outcome, done) ==
    [op |-> op, args |-> args, today |-> today,
     transport |-> IF done.gets = <<>> THEN None ELSE Some(outcome),
     result |-> done.result, made |-> done.made, gets |-> done.gets]

Issued(by, done) == [i \in 1..Len(done.gets) |-> by]

\* the program imports atmospy.client: the module constructs w, calls
\* w.get_forecast('Tokyo', days=5, dt="2025-10-10") and prints the first
\* forecast day; an exception in any of them fails the import
Import ==
    /\ module = "unloaded"
    /\ \E today \in ClientTodays :
        \E outcome \in Answers(get_forecast(WeatherClient(Some(ModuleKey)).value[1],
                                            Some("Tokyo"), Some(5), Some(ModuleDate),
                                            today, Unasked)) :
          LET self == WeatherClient(Some(ModuleKey)).value[1]
              done == get_forecast(self, Some("Tokyo"), Some(5), Some(ModuleDate),
                                   today, outcome)
              ok   == Returned(done.result) /\ CanPrintFirstDay(done.result.value[1])
          IN  /\ module' = IF ok THEN "loaded" ELSE "failed"
              /\ w' = IF ok THEN Some(self) ELSE None
              /\ wire' = wire \o Issued("import", done)
              /\ last' = Record("import", [city_name |-> Some("Tokyo"), days |-> Some(5),
                                           dt |-> Some(ModuleDate)],
                                Some(today), outcome, done)
    /\ UNCHANGED <<vcall, mcall, client, ctorKey, calls>>

\* the caller evaluates WeatherClient(api_key) and keeps the client it yields
Construct ==
    /\ module = "loaded"
    /\ \E api_key \in Keys :
          LET r == WeatherClient(api_key) IN
          /\ client' = IF Returned(r) THEN r.value ELSE client
          /\ ctorKey' = IF Returned(r) THEN api_key ELSE ctorKey
          /\ last' = Record("WeatherClient", [api_key |-> api_key], None, None,
                            Done(r, <<>>, <<>>))
    /\ UNCHANGED <<vcall, mcall, module, w, wire, calls>>

\* the caller calls client.get_current_weather(city_name, language)
CallCurrentWeather ==
    /\ module = "loaded" /\ ~IsNone(client) /\ calls < MaxCalls
    /\ \E city_name \in Cities, language \in Languages :
        \E outcome \in Answers(get_current_weather(client[1], city_name, language, Unasked)) :
          LET done == get_current_weather(client[1], city_name, language, outcome) IN
          /\ wire' = wire \o Issued("get_current_weather", done)
          /\ last' = Record("get_current_weather",
                            [city_name |-> city_name, language |-> language],
                            None, outcome, done)
    /\ calls' = calls + 1
    /\ UNCHANGED <<vcall, mcall, module, w, client, ctorKey>>

\* the caller calls client.get_forecast(city_name, days, dt)
CallForecast ==
    /\ module = "loaded" /\ ~IsNone(client) /\ calls < MaxCalls
    /\ \E city_name \in Cities, days \in DaysArgs, dt \in DateArgs,
          today \in ClientTodays :
        \E outcome \in Answers(get_forecast(client[1], city_name, days, dt, today, Unasked)) :
          LET done == get_forecast(client[1], city_name, days, dt, today, outcome) IN
          /\ wire' = wire \o Issued("get_forecast", done)
          /\ last' = Record("get_forecast",
                            [city_name |-> city_name, days |-> days, dt |-> dt],
                            Some(today), outcome, done)
    /\ calls' = calls + 1
    /\ UNCHANGED <<vcall, mcall, module, w, client, ctorKey>>

\* the caller calls client._make_request(endpoint, params) itself
CallMakeRequest ==
    /\ module = "loaded" /\ ~IsNone(client) /\ calls < MaxCalls
    /\ \E endpoint \in Endpoints, params \in ParamsArgs :
        \E outcome \in Answers(_make_request(client[1], endpoint, params, Unasked)) :
          LET done == _make_request(client[1], endpoint, params, outcome) IN
          /\ wire' = wire \o Issued("_make_request", done)
          /\ last' = Record("_make_request", [endpoint |-> endpoint, params |-> params],
                            None, outcome, done)
    /\ calls' = calls + 1
    /\ UNCHANGED <<vcall, mcall, module, w, client, ctorKey>>

Init == vcall = NoCall /\ mcall = NoCall /\ IdleClient

Next == Import \/ Construct \/ CallCurrentWeather \/ CallForecast \/ CallMakeRequest

Spec == Init /\ [][Next]_vars

----------------------------------------------------------------------------
(* The Validator's properties, under SpecValidator *)

\* the number of the day t, counted from day 1 = 0001-01-01
RECURSIVE DaysBeforeMonth(_, _)
DaysBeforeMonth(y, m) ==
    IF m = 1 THEN 0 ELSE DaysBeforeMonth(y, m - 1) + DaysInMonth(y, m - 1)

Ordinal(t) ==
    (t.year - 1) * 365 + ((t.year - 1) \div 4) - ((t.year - 1) \div 100)
        + ((t.year - 1) \div 400) + DaysBeforeMonth(t.year, t.month) + t.day

\* s is YYYY-MM-DD to the letter: ten characters, four digits, "-", two
\* digits, "-", two digits, the month 01..12 and the day one of that month
StrictShape(s) ==
    /\ Len(s) = 10
    /\ \A p \in {1, 2, 3, 4, 6, 7, 9, 10} : IsDigit(s[p])
    /\ s[5] = "-" /\ s[8] = "-"
    /\ LET y == IntOf(SubSeq(s, 1, 4))
           m == IntOf(SubSeq(s, 6, 7))
           d == IntOf(SubSeq(s, 9, 10))
       IN  y >= 1 /\ m \in 1..12 /\ d \in 1..DaysInMonth(y, m)

C8_FormatIffStrictShape ==
    vcall.op = "validate_format" => (vcall.result[1] <=> StrictShape(vcall.dt))

----------------------------------------------------------------------------
(* The Response Mapper's properties, under SpecMapper *)

\* C4: get_object_to fails with KeyError and returns nothing when "location" or
\* "current" is not a key of the payload, and every WeatherData it returns has
\* both location and current populated.
C4_NoPartialResult ==
    mcall.op = "get_object_to" =>
        LET p == mcall.response
            r == mcall.result[1]
        IN  /\ ("location" \notin DOMAIN p \/ "current" \notin DOMAIN p)
                    => r = Raise("KeyError", KeysMessage, 0)
            /\ Returned(r)
                    => ~IsNone(r.value[1].location) /\ ~IsNone(r.value[1].current)

\* get_object_to was given a payload with "current" and no "location", and raised
C4_Witness ==
    /\ mcall.op = "get_object_to"
    /\ DOMAIN mcall.response = {"current"}
    /\ ~IsNone(mcall.response["current"])
    /\ Raised(mcall.result[1], "KeyError")

\* the payload's value at key is a sub-mapping (not null)
HasMapping(p, key) == key \in DOMAIN p /\ ~IsNone(p[key])

\* record holds, field by field, the value of the same key of the sub-mapping d,
\* and None where d has no such key
BuiltFrom(record, fields, d) ==
    /\ DOMAIN record = fields
    /\ \A f \in fields : record[f] = (IF f \in DOMAIN d THEN d[f] ELSE None)

\* C5: for every payload with "location" and "current" sub-mappings (and no
\* forecast section), get_object_to succeeds and builds Location and Current
\* field by field; keys that are no field are ignored.
C5_ExtraKeysIgnored ==
    (/\ mcall.op = "get_object_to"
     /\ HasMapping(mcall.response, "location")
     /\ HasMapping(mcall.response, "current")
     /\ "forecast" \notin DOMAIN mcall.response)
        => LET r == mcall.result[1] IN
           /\ Returned(r)
           /\ BuiltFrom(r.value[1].location[1], LocationFields, mcall.response["location"][1])
           /\ BuiltFrom(r.value[1].current[1], CurrentFields, mcall.response["current"][1])

\* the payload has "location" and "current" sub-mappings whose keys are all fields
WellFormedHead(p) ==
    /\ HasMapping(p, "location") /\ DOMAIN p["location"][1] \subseteq LocationFields
    /\ HasMapping(p, "current") /\ DOMAIN p["current"][1] \subseteq CurrentFields

\* the payload's forecast section is {"forecastday": [...]}
HasForecastDays(p) ==
    /\ HasMapping(p, "forecast")
    /\ DOMAIN p["forecast"][1] = {"forecastday"}
    /\ ~IsNone(p["forecast"][1]["forecastday"])

\* C6: for every payload with "location" and "current", the WeatherData returned
\* has forecast populated if and only if the payload has a "forecast" key; the
\* forecast days are the payload's, in order, each with date, date_epoch, day,
\* astro and hour; an entry lacking one of the five makes get_object_to fail.
C6_ForecastDaysRequired ==
    (mcall.op = "get_object_to" /\ WellFormedHead(mcall.response))
        => LET p == mcall.response
               r == mcall.result[1]
           IN  /\ Returned(r)
                     => (~IsNone(r.value[1].forecast) <=> "forecast" \in DOMAIN p)
               /\ (Returned(r) /\ HasForecastDays(p))
                     => /\ r.value[1].forecast[1].forecastday = p["forecast"][1]["forecastday"]
                        /\ \A i \in DOMAIN p["forecast"][1]["forecastday"][1] :
                              ForecastDayFields \subseteq
                                  DOMAIN r.value[1].forecast[1].forecastday[1][i]
               /\ (/\ HasForecastDays(p)
                   /\ \E i \in DOMAIN p["forecast"][1]["forecastday"][1] :
                         ~(ForecastDayFields \subseteq DOMAIN p["forecast"][1]["forecastday"][1][i]))
                     => ~Returned(r)

----------------------------------------------------------------------------
(* The client's properties, under Spec *)

\* the outcome r is a failure of a check made before any GET
IsValidationFailure(r) ==
    \/ Raised(r, "MissingParamsError")
    \/ Raised(r, "ValueError")
          /\ r.msg \in {DaysMessage, FormatMessage, RangeMessage, "Endpoint must start with /"}

\* C1: get_forecast(city, days, dt) fails with the first check that fails: empty
\* city or absent/zero days is MissingParamsError; else days outside [1, 14] is
\* the ValueError of the range, which is no MissingParamsError; else a dt that is
\* given and that the Validator rejects is the Validator's failure; only when
\* all checks pass is _make_request called, with '/forecast.json' and
\* {q: city, days: days, dt: dt}.
C1_ForecastChecksInOrder ==
    last.op = "get_forecast" =>
        LET a == last.args
            r == last.result
        IN  IF FalsyStr(a.city_name) \/ FalsyInt(a.days)
            THEN Raised(r, "MissingParamsError") /\ last.made = <<>>
            ELSE IF a.days[1] \notin 1..14
            THEN /\ r = Raise("ValueError", DaysMessage, 0)
                 /\ r # Raise("MissingParamsError", "Missing parameters for the request.", 0)
                 /\ last.made = <<>>
            ELSE IF ~IsNone(a.dt) /\ ~Returned(validate_datetime(a.dt[1], last.today[1]))
            THEN r = validate_datetime(a.dt[1], last.today[1]) /\ last.made = <<>>
            ELSE last.made = <<[endpoint |-> ForecastEndpoint,
                                params |-> [q |-> a.city_name, days |-> a.days, dt |-> a.dt]]>>

\* C2 as stated: whenever a GET was issued, a response whose status is not 2xx
\* makes the call fail with APIRequestError carrying that status, a transport
\* failure makes it fail with APIRequestError carrying 500, and in neither
\* case is a WeatherData returned.
C2_AnyNon2xxFails ==
    ~IsNone(last.transport) =>
        LET o == last.transport[1]
            r == last.result
        IN  /\ (o.kind = "response" /\ o.status \notin 200..299)
                  => Raised(r, "APIRequestError") /\ r.status_code = o.status /\ IsNone(r.value)
            /\ o.kind = "raise"
                  => Raised(r, "APIRequestError") /\ r.status_code = 500 /\ IsNone(r.value)

\* C2 as amended: whenever a GET was issued, a response whose status is 4xx or
\* 5xx makes the call fail with APIRequestError carrying that status, a
\* transport failure makes it fail with APIRequestError carrying 500, and in
\* neither case is a WeatherData returned.
C2_ErrorStatusFails ==
    ~IsNone(last.transport) =>
        LET o == last.transport[1]
            r == last.result
        IN  /\ (o.kind = "response" /\ o.status \in 400..599)
                  => Raised(r, "APIRequestError") /\ r.status_code = o.status /\ IsNone(r.value)
            /\ o.kind = "raise"
                  => Raised(r, "APIRequestError") /\ r.status_code = 500 /\ IsNone(r.value)

\* the transport answered get_current_weather with 401 and the call raised
\* APIRequestError carrying 401
C2_Witness ==
    /\ last.op = "get_current_weather"
    /\ last.transport = Some(Response(401, NoLocationBody))
    /\ Raised(last.result, "APIRequestError")
    /\ last.result.status_code = 401

\* C3: every GET is issued by a call the caller made on a client; a call issues
\* at most one GET; a call that fails a check of its arguments issues none.
C3_GetsOnlyFromCallers ==
    /\ \A i \in DOMAIN wire :
          wire[i] \in {"get_current_weather", "get_forecast", "_make_request"}
    /\ Len(last.gets) <= 1
    /\ IsValidationFailure(last.result) => last.gets = <<>>

\* C9: get_current_weather(city, language) fails with MissingParamsError when
\* city is empty; otherwise its one request goes to base_url + '/current.json'
\* with a timeout of 10 and a query of q = city and key = the client's key, with
\* lang = language when a language is given and no lang when it is not; on a
\* 2xx response the call comes to what get_object_to makes of the body.
C9_CurrentWeatherRequest ==
    last.op = "get_current_weather" =>
        LET a == last.args
            r == last.result
        IN  IF FalsyStr(a.city_name)
            THEN Raised(r, "MissingParamsError") /\ last.gets = <<>>
            ELSE /\ Len(last.gets) = 1
                 /\ last.gets[1].url = BaseUrl \o CurrentEndpoint
                 /\ last.gets[1].timeout = 10
                 /\ LET query == WireQuery(last.gets[1].params) IN
                    /\ DOMAIN query \subseteq {"q", "key", "lang"}
                    /\ "q" \in DOMAIN query /\ query["q"] = a.city_name
                    /\ "key" \in DOMAIN query /\ query["key"] = client[1].api_key
                    /\ ~IsNone(a.language)
                          => "lang" \in DOMAIN query /\ query["lang"] = a.language
                    /\ IsNone(a.language) => "lang" \notin DOMAIN query
                 /\ LET o == last.transport[1] IN
                    (o.kind = "response" /\ o.status \in 200..299 /\ ~IsNone(o.json))
                          => r = get_object_to(o.json[1])

\* get_current_weather was called with a city and no language, and returned
C9_Witness ==
    /\ last.op = "get_current_weather"
    /\ last.args = [city_name |-> Some("Tokyo"), language |-> None]
    /\ Returned(last.result)

\* a client c holds the key it was constructed with, which is not empty, and
\* the fixed base URL
Configured(c, key) ==
    /\ ~FalsyStr(c.api_key)
    /\ c.api_key = key
    /\ c.base_url = BaseUrl

\* C10: WeatherClient(key) with an empty or absent key fails with
\* MissingAPIKeyError and yields no client; every client there is holds a key
\* that is not empty, the one it was constructed with, and the fixed base URL,
\* whatever calls were made on it.
C10_ClientConfiguration ==
    /\ (last.op = "WeatherClient" /\ FalsyStr(last.args.api_key))
          => Raised(last.result, "MissingAPIKeyError") /\ IsNone(last.result.value)
    /\ ~IsNone(client) => Configured(client[1], ctorKey)
    /\ ~IsNone(w) => Configured(w[1], Some(ModuleKey))

\* a client has been through a call that failed at the transport
C10_Witness ==
    /\ ~IsNone(client)
    /\ calls >= 1
    /\ last.op = "get_forecast"
    /\ Raised(last.result, "APIRequestError")

====
